---- MODULE Spec2Model ----
(***************************************************************************)
(* Connect 4: the game object (connect4.py), the minimax engine with       *)
(* alpha-beta pruning (ai.py) and the constants both share (constants.py). *)
(* A board is a function row -> column -> cell, rows 0 (top) to            *)
(* BOARD_HEIGHT-1 (bottom), as the code indexes board[row][col].           *)
(***************************************************************************)
EXTENDS Integers, Sequences, FiniteSets, TLC

\* ------------------------------------------------------------ constants.py
BOARD_WIDTH == 7
BOARD_HEIGHT == 6
EMPTY == 0
PLAYER_PIECE == 1
AI_PIECE == 2
WINDOW_LENGTH == 4

\* Python's None (the column of a terminal minimax result, Connect4.winner).
None == -1
\* math.inf: every score the engine compares lies strictly inside (-inf, inf).
inf == 1000000000

Rows == 0..(BOARD_HEIGHT - 1)
Cols == 0..(BOARD_WIDTH - 1)
Pieces == {PLAYER_PIECE, AI_PIECE}

\* np.zeros((BOARD_HEIGHT, BOARD_WIDTH), dtype=int)
np_zeros == [row \in Rows |-> [col \in Cols |-> EMPTY]]

\* ------------------------------------------------------------------ ai.py

\* A Python index: a negative index counts from the end of the axis.
PyIndex(i, n) == IF i < 0 THEN i + n ELSE i

\* Connect4AI.get_valid_moves: the open columns, ascending.
RECURSIVE valid_moves_from(_, _)
valid_moves_from(board, col) ==
    IF col >= BOARD_WIDTH THEN <<>>
    ELSE IF board[0][col] = EMPTY
         THEN <<col>> \o valid_moves_from(board, col + 1)
         ELSE valid_moves_from(board, col + 1)

\* Faulty variant: the filter on the top cell forgotten, every column returned.
get_valid_moves_unfiltered(board) == [i \in 1..BOARD_WIDTH |-> i - 1]

get_valid_moves(board) == valid_moves_from(board, 0)

\* Faulty variant: the horizontal scan stops one column early, range(BOARD_WIDTH - 4).
winning_move_short(board, piece) ==
    \/ \E row \in 0..(BOARD_HEIGHT - 1), col \in 0..(BOARD_WIDTH - 4 - 1) :
          \A i \in 0..(WINDOW_LENGTH - 1) : board[row][col + i] = piece
    \/ \E col \in 0..(BOARD_WIDTH - 1), row \in 0..(BOARD_HEIGHT - 3 - 1) :
          \A i \in 0..(WINDOW_LENGTH - 1) : board[row + i][col] = piece
    \/ \E row \in 0..(BOARD_HEIGHT - 3 - 1), col \in 0..(BOARD_WIDTH - 3 - 1) :
          \A i \in 0..(WINDOW_LENGTH - 1) : board[row + i][col + i] = piece
    \/ \E row \in 3..(BOARD_HEIGHT - 1), col \in 0..(BOARD_WIDTH - 3 - 1) :
          \A i \in 0..(WINDOW_LENGTH - 1) : board[row - i][col + i] = piece

\* Connect4AI.winning_move: the four scans, with the code's ranges.
winning_move(board, piece) ==
    \/ \E row \in 0..(BOARD_HEIGHT - 1), col \in 0..(BOARD_WIDTH - 3 - 1) :
          \A i \in 0..(WINDOW_LENGTH - 1) : board[row][col + i] = piece
    \/ \E col \in 0..(BOARD_WIDTH - 1), row \in 0..(BOARD_HEIGHT - 3 - 1) :
          \A i \in 0..(WINDOW_LENGTH - 1) : board[row + i][col] = piece
    \/ \E row \in 0..(BOARD_HEIGHT - 3 - 1), col \in 0..(BOARD_WIDTH - 3 - 1) :
          \A i \in 0..(WINDOW_LENGTH - 1) : board[row + i][col + i] = piece
    \/ \E row \in 3..(BOARD_HEIGHT - 1), col \in 0..(BOARD_WIDTH - 3 - 1) :
          \A i \in 0..(WINDOW_LENGTH - 1) : board[row - i][col + i] = piece

\* Faulty variant: the player's win left out of the terminal test.
is_terminal_node_no_player(board) ==
    LET cond2 == winning_move(board, AI_PIECE)
        cond3 == \A col \in 0..(BOARD_WIDTH - 1) : board[0][col] # EMPTY
    IN  cond2 \/ cond3

\* Connect4AI.is_terminal_node
is_terminal_node(board) ==
    LET cond1 == winning_move(board, PLAYER_PIECE)
        cond2 == winning_move(board, AI_PIECE)
        cond3 == \A col \in 0..(BOARD_WIDTH - 1) : board[0][col] # EMPTY
    IN  cond1 \/ cond2 \/ cond3

\* list.count on a window
Count(window, x) == Cardinality({i \in DOMAIN window : window[i] = x})

\* Faulty variant: the opponent hard-coded as PLAYER_PIECE.
evaluate_window_fixed_opp(window, piece) ==
    LET opp_piece == PLAYER_PIECE
        n_piece == Count(window, piece)
        n_empty == Count(window, EMPTY)
        n_opp == Count(window, opp_piece)
        own == IF n_piece = 4 THEN 100
               ELSE IF n_piece = 3 /\ n_empty = 1 THEN 5
               ELSE IF n_piece = 2 /\ n_empty = 2 THEN 2
               ELSE 0
        opp == IF n_opp = 3 /\ n_empty = 1 THEN 4
               ELSE 0
    IN  own - opp

\* Faulty variant: the opponent's three-in-a-window added to the score instead of
\* taken from it.
evaluate_window_sign(window, piece) ==
    LET opp_piece == IF piece = AI_PIECE THEN PLAYER_PIECE ELSE AI_PIECE
        n_piece == Count(window, piece)
        n_empty == Count(window, EMPTY)
        n_opp == Count(window, opp_piece)
        own == IF n_piece = 4 THEN 100
               ELSE IF n_piece = 3 /\ n_empty = 1 THEN 5
               ELSE IF n_piece = 2 /\ n_empty = 2 THEN 2
               ELSE 0
        opp == IF n_opp = 3 /\ n_empty = 1 THEN 4
               ELSE 0
    IN  own + opp

\* Faulty variant: a full window scored with the value of a won board.
evaluate_window_win_value(window, piece) ==
    LET opp_piece == IF piece = AI_PIECE THEN PLAYER_PIECE ELSE AI_PIECE
        n_piece == Count(window, piece)
        n_empty == Count(window, EMPTY)
        n_opp == Count(window, opp_piece)
        own == IF n_piece = 4 THEN 100000000
               ELSE IF n_piece = 3 /\ n_empty = 1 THEN 5
               ELSE IF n_piece = 2 /\ n_empty = 2 THEN 2
               ELSE 0
        opp == IF n_opp = 3 /\ n_empty = 1 THEN 4
               ELSE 0
    IN  own - opp

\* Connect4AI.evaluate_window
evaluate_window(window, piece) ==
    LET opp_piece == IF piece = AI_PIECE THEN PLAYER_PIECE ELSE AI_PIECE
        n_piece == Count(window, piece)
        n_empty == Count(window, EMPTY)
        n_opp == Count(window, opp_piece)
        own == IF n_piece = 4 THEN 100
               ELSE IF n_piece = 3 /\ n_empty = 1 THEN 5
               ELSE IF n_piece = 2 /\ n_empty = 2 THEN 2
               ELSE 0
        opp == IF n_opp = 3 /\ n_empty = 1 THEN 4
               ELSE 0
    IN  own - opp

\* The sum of f over its (finite, integer) domain lo..hi.
RECURSIVE SumFn(_, _, _)
SumFn(f, lo, hi) == IF lo > hi THEN 0 ELSE f[lo] + SumFn(f, lo + 1, hi)

\* The sum of f[row][col] for row in rlo..rhi and col in clo..chi.
RECURSIVE SumRows(_, _, _, _, _)
SumRows(f, rlo, rhi, clo, chi) ==
    IF rlo > rhi THEN 0
    ELSE SumFn(f[rlo], clo, chi) + SumRows(f, rlo + 1, rhi, clo, chi)

\* Connect4AI.score_position
score_position(board, piece) ==
    LET center_array == [row \in 0..(BOARD_HEIGHT - 1) |-> board[row][BOARD_WIDTH \div 2]]
        center_count == Count(center_array, piece)
        horizontal == [row \in 0..(BOARD_HEIGHT - 1) |-> [col \in 0..(BOARD_WIDTH - 3 - 1) |->
            evaluate_window([i \in 0..(WINDOW_LENGTH - 1) |-> board[row][col + i]], piece)]]
        vertical == [row \in 0..(BOARD_HEIGHT - 3 - 1) |-> [col \in 0..(BOARD_WIDTH - 1) |->
            evaluate_window([i \in 0..(WINDOW_LENGTH - 1) |-> board[row + i][col]], piece)]]
        diagonal == [row \in 0..(BOARD_HEIGHT - 3 - 1) |-> [col \in 0..(BOARD_WIDTH - 3 - 1) |->
            evaluate_window([i \in 0..(WINDOW_LENGTH - 1) |-> board[row + i][col + i]], piece)]]
        antidiagonal == [row \in 0..(BOARD_HEIGHT - 3 - 1) |-> [col \in 3..(BOARD_WIDTH - 1) |->
            evaluate_window([i \in 0..(WINDOW_LENGTH - 1) |-> board[row + i][col - i]], piece)]]
    IN  center_count * 3
        + SumRows(horizontal, 0, BOARD_HEIGHT - 1, 0, BOARD_WIDTH - 3 - 1)
        + SumRows(vertical, 0, BOARD_HEIGHT - 3 - 1, 0, BOARD_WIDTH - 1)
        + SumRows(diagonal, 0, BOARD_HEIGHT - 3 - 1, 0, BOARD_WIDTH - 3 - 1)
        + SumRows(antidiagonal, 0, BOARD_HEIGHT - 3 - 1, 3, BOARD_WIDTH - 1)

\* Faulty variant: the column scanned from the top row down, range(BOARD_HEIGHT).
RECURSIVE next_open_row_down(_, _, _)
next_open_row_down(board, col, row) ==
    IF row >= BOARD_HEIGHT THEN -1
    ELSE IF board[row][col] = EMPTY THEN row
    ELSE next_open_row_down(board, col, row + 1)

get_next_open_row_top(board, col) == next_open_row_down(board, col, 0)

\* Connect4AI.get_next_open_row: the lowest empty row of the column, or -1.
RECURSIVE next_open_row_from(_, _, _)
next_open_row_from(board, col, row) ==
    IF row < 0 THEN -1
    ELSE IF board[row][col] = EMPTY THEN row
    ELSE next_open_row_from(board, col, row - 1)

get_next_open_row(board, col) == next_open_row_from(board, col, BOARD_HEIGHT - 1)

\* Connect4AI.drop_piece: board[row][col] = piece
drop_piece(board, row, col, piece) ==
    [board EXCEPT ![PyIndex(row, BOARD_HEIGHT)][col] = piece]

\* Faulty variant: board_copy = board, an alias instead of a copy.
ndarray_alias(board) == [cells |-> board, shares |-> TRUE]

\* numpy.ndarray.copy(): a new array with the same cells. `shares` tells whether
\* a write through the result also reaches the array it was made from.
ndarray_copy(board) == [cells |-> board, shares |-> FALSE]

Max(a, b) == IF a >= b THEN a ELSE b
Min(a, b) == IF a <= b THEN a ELSE b

\* Connect4AI.minimax. The result carries, beside (column, value), the cells
\* the caller's `board` array holds when the call returns.
RECURSIVE minimax(_, _, _, _, _)
RECURSIVE max_loop(_, _, _, _, _, _, _, _)
RECURSIVE min_loop(_, _, _, _, _, _, _, _)

\* Faulty variant: the pruning test made before the best value and column are updated.
RECURSIVE max_loop_break_first(_, _, _, _, _, _, _, _)
max_loop_break_first(board, depth, alpha, beta, valid_moves, i, value, column) ==
    IF i > Len(valid_moves) THEN [column |-> column, value |-> value, board |-> board]
    ELSE
        LET col == valid_moves[i]
            row == get_next_open_row(board, col)
            cp == ndarray_copy(board)
            board_copy == drop_piece(cp.cells, row, col, AI_PIECE)
            child == minimax(board_copy, depth - 1, alpha, beta, FALSE)
            board1 == IF cp.shares THEN child.board ELSE board
            new_score == child.value
            value1 == IF new_score > value THEN new_score ELSE value
            column1 == IF new_score > value THEN col ELSE column
            alpha1 == Max(alpha, value1)
        IN  IF alpha1 >= beta
            THEN [column |-> column, value |-> value, board |-> board1]
            ELSE max_loop_break_first(board1, depth, alpha1, beta, valid_moves,
                                      i + 1, value1, column1)

\* The maximizing loop from the i-th valid move on.
max_loop(board, depth, alpha, beta, valid_moves, i, value, column) ==
    IF i > Len(valid_moves) THEN [column |-> column, value |-> value, board |-> board]
    ELSE
        LET col == valid_moves[i]
            row == get_next_open_row(board, col)
            cp == ndarray_copy(board)
            board_copy == drop_piece(cp.cells, row, col, AI_PIECE)
            child == minimax(board_copy, depth - 1, alpha, beta, FALSE)
            board1 == IF cp.shares THEN child.board ELSE board
            new_score == child.value
            value1 == IF new_score > value THEN new_score ELSE value
            column1 == IF new_score > value THEN col ELSE column
            alpha1 == Max(alpha, value1)
        IN  IF alpha1 >= beta
            THEN [column |-> column1, value |-> value1, board |-> board1]
            ELSE max_loop(board1, depth, alpha1, beta, valid_moves, i + 1, value1, column1)

\* The minimizing loop from the i-th valid move on.
min_loop(board, depth, alpha, beta, valid_moves, i, value, column) ==
    IF i > Len(valid_moves) THEN [column |-> column, value |-> value, board |-> board]
    ELSE
        LET col == valid_moves[i]
            row == get_next_open_row(board, col)
            cp == ndarray_copy(board)
            board_copy == drop_piece(cp.cells, row, col, PLAYER_PIECE)
            child == minimax(board_copy, depth - 1, alpha, beta, TRUE)
            board1 == IF cp.shares THEN child.board ELSE board
            new_score == child.value
            value1 == IF new_score < value THEN new_score ELSE value
            column1 == IF new_score < value THEN col ELSE column
            beta1 == Min(beta, value1)
        IN  IF alpha >= beta1
            THEN [column |-> column1, value |-> value1, board |-> board1]
            ELSE min_loop(board1, depth, alpha, beta1, valid_moves, i + 1, value1, column1)

minimax(board, depth, alpha, beta, maximizing_player) ==
    LET valid_moves == get_valid_moves(board)
        is_terminal == is_terminal_node(board)
    IN  IF depth = 0 \/ is_terminal
        THEN IF is_terminal
             THEN IF winning_move(board, AI_PIECE)
                  THEN [column |-> None, value |-> 100000000, board |-> board]
                  ELSE IF winning_move(board, PLAYER_PIECE)
                  THEN [column |-> None, value |-> -100000000, board |-> board]
                  ELSE [column |-> None, value |-> 0, board |-> board]
             ELSE [column |-> None, value |-> score_position(board, AI_PIECE), board |-> board]
        ELSE IF maximizing_player
        THEN max_loop(board, depth, alpha, beta, valid_moves, 1, -inf, valid_moves[1])
        ELSE min_loop(board, depth, alpha, beta, valid_moves, 1, inf, valid_moves[1])

\* Connect4AI.get_best_move: the move, and the cells game.board holds afterwards.
get_best_move(game_board, depth) ==
    LET cp == ndarray_copy(game_board)
        res == minimax(cp.cells, depth, -inf, inf, TRUE)
    IN  [move |-> res.column,
         board |-> IF cp.shares THEN res.board ELSE game_board]

\* ------------------------------------------------------------ connect4.py

\* Connect4.drop_piece: self.board[row][col] = piece
Connect4_drop_piece(b, row, col, piece) ==
    [b EXCEPT ![PyIndex(row, BOARD_HEIGHT)][col] = piece]

\* Connect4.is_valid_location
is_valid_location(b, col) == b[0][col] = EMPTY

\* Connect4.get_next_open_row
RECURSIVE Connect4_next_open_row_from(_, _, _)
Connect4_next_open_row_from(b, col, row) ==
    IF row < 0 THEN -1
    ELSE IF b[row][col] = EMPTY THEN row
    ELSE Connect4_next_open_row_from(b, col, row - 1)

Connect4_get_next_open_row(b, col) == Connect4_next_open_row_from(b, col, BOARD_HEIGHT - 1)

\* Connect4.winning_move
Connect4_winning_move(b, piece) ==
    \/ \E row \in 0..(BOARD_HEIGHT - 1), col \in 0..(BOARD_WIDTH - 3 - 1) :
          \A i \in 0..(WINDOW_LENGTH - 1) : b[row][col + i] = piece
    \/ \E col \in 0..(BOARD_WIDTH - 1), row \in 0..(BOARD_HEIGHT - 3 - 1) :
          \A i \in 0..(WINDOW_LENGTH - 1) : b[row + i][col] = piece
    \/ \E row \in 0..(BOARD_HEIGHT - 3 - 1), col \in 0..(BOARD_WIDTH - 3 - 1) :
          \A i \in 0..(WINDOW_LENGTH - 1) : b[row + i][col + i] = piece
    \/ \E row \in 3..(BOARD_HEIGHT - 1), col \in 0..(BOARD_WIDTH - 3 - 1) :
          \A i \in 0..(WINDOW_LENGTH - 1) : b[row - i][col + i] = piece

\* Connect4.is_board_full
is_board_full(b) == \A col \in 0..(BOARD_WIDTH - 1) : b[0][col] # EMPTY

\* Connect4.__init__: the fields of a new game.
Connect4_init ==
    [board |-> np_zeros, game_over |-> FALSE, turn |-> PLAYER_PIECE, winner |-> None]

\* Connect4.reset
Connect4_reset(game) ==
    [board |-> np_zeros, game_over |-> FALSE, winner |-> None, turn |-> PLAYER_PIECE]

\* Faulty variant: the game_over test left out of play_move's condition.
play_move_ignores_over(game, col) ==
    IF is_valid_location(game.board, col)
    THEN LET row == Connect4_get_next_open_row(game.board, col)
             b1 == Connect4_drop_piece(game.board, row, col, game.turn)
             g1 == [game EXCEPT !.board = b1]
         IN  IF Connect4_winning_move(b1, game.turn)
             THEN [game |-> [g1 EXCEPT !.game_over = TRUE, !.winner = game.turn], ret |-> TRUE]
             ELSE IF is_board_full(b1)
             THEN [game |-> [g1 EXCEPT !.game_over = TRUE], ret |-> TRUE]
             ELSE [game |-> [g1 EXCEPT !.turn = IF game.turn = PLAYER_PIECE
                                                 THEN AI_PIECE ELSE PLAYER_PIECE],
                   ret |-> TRUE]
    ELSE [game |-> game, ret |-> FALSE]

\* Faulty variant: the is_board_full branch left out, a full board without four
\* in a row does not end the game.
play_move_no_draw(game, col) ==
    IF ~game.game_over /\ is_valid_location(game.board, col)
    THEN LET row == Connect4_get_next_open_row(game.board, col)
             b1 == Connect4_drop_piece(game.board, row, col, game.turn)
             g1 == [game EXCEPT !.board = b1]
         IN  IF Connect4_winning_move(b1, game.turn)
             THEN [game |-> [g1 EXCEPT !.game_over = TRUE, !.winner = game.turn], ret |-> TRUE]
             ELSE [game |-> [g1 EXCEPT !.turn = IF game.turn = PLAYER_PIECE
                                                 THEN AI_PIECE ELSE PLAYER_PIECE],
                   ret |-> TRUE]
    ELSE [game |-> game, ret |-> FALSE]

\* Connect4.play_move: the game's fields afterwards and the value returned.
play_move(game, col) ==
    IF ~game.game_over /\ is_valid_location(game.board, col)
    THEN LET row == Connect4_get_next_open_row(game.board, col)
             b1 == Connect4_drop_piece(game.board, row, col, game.turn)
             g1 == [game EXCEPT !.board = b1]
         IN  IF Connect4_winning_move(b1, game.turn)
             THEN [game |-> [g1 EXCEPT !.game_over = TRUE, !.winner = game.turn], ret |-> TRUE]
             ELSE IF is_board_full(b1)
             THEN [game |-> [g1 EXCEPT !.game_over = TRUE], ret |-> TRUE]
             ELSE [game |-> [g1 EXCEPT !.turn = IF game.turn = PLAYER_PIECE
                                                 THEN AI_PIECE ELSE PLAYER_PIECE],
                   ret |-> TRUE]
    ELSE [game |-> game, ret |-> FALSE]

\* Connect4AI(depth=5) in Connect4GUI.__init__
GUI_DEPTH == 5

\* --------------------------------------------------------------- the state
\* board, game_over, turn, winner: the fields of the Connect4 object.
\* depth: Connect4AI.depth.  best_move: what the last get_best_move returned.
\* op: the last call made; arg: the column it was given; ret: what play_move
\* returned.
\* show_play_again: the field of Connect4GUI.  pc: where the handler of a mouse
\* click stands: "idle" between two clicks, "ai_turn" before its call of
\* get_best_move, "ai_reply" after it.
VARIABLES board, game_over, turn, winner, depth, best_move, op, arg, ret,
          show_play_again, pc

vars == <<board, game_over, turn, winner, depth, best_move, op, arg, ret,
          show_play_again, pc>>

Game == [board |-> board, game_over |-> game_over, turn |-> turn, winner |-> winner]

\* The number of pieces on a board.
Pieces_on(b) == Cardinality({rc \in Rows \X Cols : b[rc[1]][rc[2]] # EMPTY})

\* ------------------------------------------------------------- the actions

\* game.play_move(col)
PlayMove(col) ==
    LET r == play_move(Game, col)
    IN  /\ board' = r.game.board
        /\ game_over' = r.game.game_over
        /\ turn' = r.game.turn
        /\ winner' = r.game.winner
        /\ op' = "play_move"
        /\ arg' = col
        /\ ret' = r.ret
        /\ UNCHANGED <<depth, best_move, show_play_again, pc>>

\* game.reset()
Reset ==
    LET g == Connect4_reset(Game)
    IN  /\ board' = g.board
        /\ game_over' = g.game_over
        /\ turn' = g.turn
        /\ winner' = g.winner
        /\ op' = "reset"
        /\ arg' = None
        /\ ret' = FALSE
        /\ UNCHANGED <<depth, best_move, show_play_again, pc>>

\* ai_move = ai.get_best_move(game): game.board is the only field it reads, and
\* the array it may write.
GetBestMove ==
    LET r == get_best_move(board, depth)
    IN  /\ best_move' = r.move
        /\ board' = r.board
        /\ op' = "get_best_move"
        /\ arg' = None
        /\ ret' = FALSE
        /\ UNCHANGED <<game_over, turn, winner, depth, show_play_again, pc>>

\* ------------------------------------------------- the game specification
\* Any sequence of play_move and reset calls on a new game. The model follows
\* games of at most MaxMoves pieces whose calls name the columns 0..MaxCol, and
\* every such call on a game that is over.
MaxMoves == 7
MaxCol == 3

\* Connect4() and Connect4AI(depth): the objects as constructed.
Init ==
    /\ board = Connect4_init.board
    /\ game_over = Connect4_init.game_over
    /\ turn = Connect4_init.turn
    /\ winner = Connect4_init.winner
    /\ depth = GUI_DEPTH
    /\ best_move = None
    /\ op = "init"
    /\ arg = None
    /\ ret = FALSE
    /\ show_play_again = FALSE
    /\ pc = "idle"

Next ==
    \/ \E col \in 0..Min(MaxCol, BOARD_WIDTH - 1) :
          (~game_over => Pieces_on(board) < MaxMoves) /\ PlayMove(col)
    \/ Reset

Spec == Init /\ [][Next]_vars

\* ----------------------------------------------- the search specification
\* get_best_move on the positions of three games played with play_move, and on
\* the blocking position, at every depth 1..MaxDepth.
MaxDepth == 3

\* A game that fills the board with no four in a row.
DrawGame ==
    <<0, 1, 0, 0, 1, 1, 0, 0, 1, 1, 1, 0, 3, 3, 3, 3, 2, 2, 2, 2, 3,
      2, 3, 2, 5, 4, 5, 5, 4, 4, 5, 4, 5, 4, 5, 6, 4, 6, 6, 6, 6, 6>>

\* After 11 moves the AI side has three in column 6 and two in column 0;
\* the 12th move completes column 6.
ThreatGame == <<1, 6, 3, 6, 5, 6, 1, 0, 3, 0, 5, 6>>

\* The player side completes column 0 with the 7th move.
PlayerWinGame == <<0, 1, 0, 1, 0, 1, 0>>

\* Each game with the number of moves already played when the model first
\* calls get_best_move on it.
Games ==
    {[moves |-> DrawGame, from |-> 20],
     [moves |-> ThreatGame, from |-> 6],
     [moves |-> PlayerWinGame, from |-> 6]}

\* The game after play_move(moves[i]), ..., play_move(moves[k]) on `game`
\* (a game that is over rejects every further move).
RECURSIVE ReplayFrom(_, _, _, _)
ReplayFrom(game, moves, i, k) ==
    IF game.game_over \/ i > k THEN game
    ELSE ReplayFrom(play_move(game, moves[i]).game, moves, i + 1, k)

\* The game after the first k moves of `moves` on a new game.
Replay(moves, k) == ReplayFrom(Connect4_init, moves, 1, k)

\* Three PLAYER_PIECEs in the bottom row, columns 0..2, placed with drop_piece.
BlockingBoard ==
    Connect4_drop_piece(
        Connect4_drop_piece(
            Connect4_drop_piece(np_zeros, BOARD_HEIGHT - 1, 0, PLAYER_PIECE),
            BOARD_HEIGHT - 1, 1, PLAYER_PIECE),
        BOARD_HEIGHT - 1, 2, PLAYER_PIECE)

BlockingGame == [Connect4_init EXCEPT !.board = BlockingBoard]

Positions ==
    UNION {{Replay(g.moves, k) : k \in g.from..Len(g.moves)} : g \in Games}
        \cup {BlockingGame}

InitAI ==
    /\ \E g \in Positions :
          /\ board = g.board
          /\ game_over = g.game_over
          /\ turn = g.turn
          /\ winner = g.winner
    /\ depth \in 1..MaxDepth
    /\ best_move = None
    /\ op = "init"
    /\ arg = None
    /\ ret = FALSE
    /\ show_play_again = FALSE
    /\ pc = "idle"

\* gui.py: after get_best_move, play_move(ai_move) when it names a column.
PlayBestMove ==
    /\ op = "get_best_move"
    /\ best_move # None /\ 0 <= best_move /\ best_move < BOARD_WIDTH
    /\ PlayMove(best_move)

NextAI ==
    \/ op = "init" /\ GetBestMove
    \/ PlayBestMove
    \/ op = "init" /\ \E col \in Cols : PlayMove(col)
    \/ op = "play_move" /\ Reset

SpecAI == InitAI /\ [][NextAI]_vars

\* -------------------------------------------------- the GUI specification
\* Connect4GUI.run: the handler of one MOUSEBUTTONDOWN event, in the steps
\* between its calls on the game and the engine. No other event is handled
\* before the handler returns (pc = "idle"). The engine is built with a depth
\* in 1..MaxGuiDepth, the player clicks on the columns 0..MaxCol, and a click
\* is followed while the board holds fewer than MaxMoves pieces.
MaxGuiDepth == 1

\* Faulty variant: the test of game.game_over after the player's move left out.
after_player_move_no_test(r) ==
    IF r.ret THEN "ai_turn" ELSE "idle"

\* Where the handler goes after `if self.game.play_move(col)`: to the AI's turn
\* when the move was accepted and the game is not over, else to its end.
after_player_move(r) ==
    IF r.ret
    THEN IF r.game.game_over THEN "idle" ELSE "ai_turn"
    ELSE "idle"

\* show_play_again after a play_move of the handler: show_message sets it when
\* the move was accepted and ended the game.
after_move_show(r, show) ==
    IF r.ret /\ r.game.game_over THEN TRUE ELSE show

\* Connect4GUI(): the game, the engine and the flag as constructed.
InitGUI ==
    /\ board = Connect4_init.board
    /\ game_over = Connect4_init.game_over
    /\ turn = Connect4_init.turn
    /\ winner = Connect4_init.winner
    /\ depth \in 1..MaxGuiDepth
    /\ best_move = None
    /\ op = "init"
    /\ arg = None
    /\ ret = FALSE
    /\ show_play_again = FALSE
    /\ pc = "idle"

\* A click on the play-again button while it is shown: reset_game().
GuiPlayAgain ==
    /\ pc = "idle"
    /\ show_play_again
    /\ LET g == Connect4_reset(Game)
       IN  /\ board' = g.board
           /\ game_over' = g.game_over
           /\ turn' = g.turn
           /\ winner' = g.winner
    /\ show_play_again' = FALSE
    /\ op' = "reset"
    /\ arg' = None
    /\ ret' = FALSE
    /\ UNCHANGED <<depth, best_move, pc>>

\* Any other click while the game is not over: play_move(col) for the column
\* under the mouse, then the result message or the AI's turn.
GuiClickColumn(col) ==
    /\ pc = "idle"
    /\ ~game_over
    /\ 0 <= col /\ col < BOARD_WIDTH
    /\ LET r == play_move(Game, col)
       IN  /\ board' = r.game.board
           /\ game_over' = r.game.game_over
           /\ turn' = r.game.turn
           /\ winner' = r.game.winner
           /\ ret' = r.ret
           /\ show_play_again' = after_move_show(r, show_play_again)
           /\ pc' = after_player_move(r)
    /\ op' = "play_move"
    /\ arg' = col
    /\ UNCHANGED <<depth, best_move>>

\* ai_move = self.ai.get_best_move(self.game)
GuiAiTurn ==
    /\ pc = "ai_turn"
    /\ LET r == get_best_move(board, depth)
       IN  /\ best_move' = r.move
           /\ board' = r.board
    /\ op' = "get_best_move"
    /\ arg' = None
    /\ ret' = FALSE
    /\ pc' = "ai_reply"
    /\ UNCHANGED <<game_over, turn, winner, depth, show_play_again>>

\* if ai_move is not None and 0 <= ai_move < BOARD_WIDTH: play_move(ai_move),
\* then the result message if the game is over.
GuiAiReply ==
    /\ pc = "ai_reply"
    /\ IF best_move # None /\ 0 <= best_move /\ best_move < BOARD_WIDTH
       THEN LET r == play_move(Game, best_move)
            IN  /\ board' = r.game.board
                /\ game_over' = r.game.game_over
                /\ turn' = r.game.turn
                /\ winner' = r.game.winner
                /\ ret' = r.ret
                /\ show_play_again' = IF r.game.game_over THEN TRUE ELSE show_play_again
                /\ op' = "play_move"
                /\ arg' = best_move
       ELSE UNCHANGED <<board, game_over, turn, winner, ret, show_play_again, op, arg>>
    /\ pc' = "idle"
    /\ UNCHANGED <<depth, best_move>>

NextGUI ==
    \/ \E col \in 0..Min(MaxCol, BOARD_WIDTH - 1) :
          Pieces_on(board) < MaxMoves /\ GuiClickColumn(col)
    \/ GuiAiTurn
    \/ GuiAiReply
    \/ GuiPlayAgain

SpecGUI == InitGUI /\ [][NextGUI]_vars

\* ------------------------------------------- the end-game specification
\* Any sequence of play_move and reset calls, on a new game as in Spec and on
\* the game DrawGame has reached when MaxLeft cells are still empty: from
\* there every column may be played until the game ends.
MaxLeft == 10

InitGames ==
    /\ \E g \in {Connect4_init, Replay(DrawGame, BOARD_WIDTH * BOARD_HEIGHT - MaxLeft)} :
          /\ board = g.board
          /\ game_over = g.game_over
          /\ turn = g.turn
          /\ winner = g.winner
    /\ depth = GUI_DEPTH
    /\ best_move = None
    /\ op = "init"
    /\ arg = None
    /\ ret = FALSE
    /\ show_play_again = FALSE
    /\ pc = "idle"

NextGames ==
    \/ \E col \in 0..Min(MaxCol, BOARD_WIDTH - 1) :
          (~game_over => Pieces_on(board) < MaxMoves) /\ PlayMove(col)
    \/ \E col \in Cols :
          Pieces_on(board) >= BOARD_WIDTH * BOARD_HEIGHT - MaxLeft /\ PlayMove(col)
    \/ Reset

SpecGames == InitGames /\ [][NextGames]_vars

\* ------------------------------------------------ the board specification
\* winning_move and score_position on boards written cell by cell with
\* drop_piece(row, col, piece): a straight run of WINDOW_LENGTH-1..MaxRun cells
\* of one piece anywhere on the empty board, then a piece of either side on any
\* one cell.
MaxRun == 4

\* The cells of the run of n cells from (r, c) along direction d.
RunCells(r, c, d, n) == {<<r + i * d[1], c + i * d[2]>> : i \in 0..(n - 1)}

\* drop_piece(row, col, piece) for each cell of a run that fits on the board.
DropRun(r, c, d, n, piece) ==
    /\ op = "init"
    /\ RunCells(r, c, d, n) \subseteq Rows \X Cols
    /\ board' = [row \in Rows |-> [col \in Cols |->
                    IF <<row, col>> \in RunCells(r, c, d, n)
                    THEN Connect4_drop_piece(board, row, col, piece)[row][col]
                    ELSE board[row][col]]]
    /\ op' = "drop_run"
    /\ UNCHANGED <<game_over, turn, winner, depth, best_move, arg, ret,
                   show_play_again, pc>>

\* One more drop_piece(row, col, value) on any cell.
DropPiece(row, col, value) ==
    /\ op = "drop_run"
    /\ board' = Connect4_drop_piece(board, row, col, value)
    /\ op' = "drop_piece"
    /\ UNCHANGED <<game_over, turn, winner, depth, best_move, arg, ret,
                   show_play_again, pc>>

NextBoards ==
    \/ \E r \in Rows, c \in Cols, d \in {<<0, 1>>, <<1, 0>>, <<1, 1>>, <<1, -1>>},
          n \in (WINDOW_LENGTH - 1)..MaxRun, piece \in Pieces : DropRun(r, c, d, n, piece)
    \/ \E row \in Rows, col \in Cols, value \in Pieces : DropPiece(row, col, value)

SpecBoards == Init /\ [][NextBoards]_vars

\* --------------------------------------------------- reference definitions

\* The four alignment directions as (row step, column step).
Directions == {<<0, 1>>, <<1, 0>>, <<1, 1>>, <<1, -1>>}

\* `piece` holds n consecutive cells of b along some direction.
HasRun(b, piece, n) ==
    \E r \in Rows, c \in Cols, d \in Directions :
        \A i \in 0..(n - 1) :
            /\ r + i * d[1] \in Rows
            /\ c + i * d[2] \in Cols
            /\ b[r + i * d[1]][c + i * d[2]] = piece

HasFour(b, piece) == HasRun(b, piece, WINDOW_LENGTH)

\* The columns whose top cell is empty.
OpenColumns(b) == {c \in Cols : b[0][c] = EMPTY}

\* No side has four in a row and some column is open.
NonTerminal(b) == ~HasFour(b, PLAYER_PIECE) /\ ~HasFour(b, AI_PIECE) /\ OpenColumns(b) # {}

\* b with `piece` in the lowest empty cell of column c (c an open column).
Dropped(b, c, piece) ==
    LET r == CHOOSE x \in Rows : b[x][c] = EMPTY /\ \A y \in Rows : y > x => b[y][c] # EMPTY
    IN  [b EXCEPT ![r][c] = piece]

\* The columns where one AI_PIECE makes four in a row at once.
WinningColumns(b) == {c \in OpenColumns(b) : HasFour(Dropped(b, c, AI_PIECE), AI_PIECE)}

\* Each column's pieces lie on the bottom row upward, with no empty cell below one.
Gravity(b) ==
    \A c \in Cols, r \in 0..(BOARD_HEIGHT - 2) : b[r][c] # EMPTY => b[r + 1][c] # EMPTY

\* Minimax over the same tree with no pruning: the same ascending column
\* order, the first strictly best column kept.
RECURSIVE exhaustive(_, _, _)
RECURSIVE exhaustive_loop(_, _, _, _, _, _, _)
exhaustive_loop(b, d, maximizing, valid_moves, i, value, column) ==
    IF i > Len(valid_moves) THEN [column |-> column, value |-> value]
    ELSE
        LET col == valid_moves[i]
            child == exhaustive(drop_piece(b, get_next_open_row(b, col), col,
                                           IF maximizing THEN AI_PIECE ELSE PLAYER_PIECE),
                                d - 1, ~maximizing)
            better == IF maximizing THEN child.value > value ELSE child.value < value
        IN  exhaustive_loop(b, d, maximizing, valid_moves, i + 1,
                            IF better THEN child.value ELSE value,
                            IF better THEN col ELSE column)

exhaustive(b, d, maximizing) ==
    IF d = 0 \/ is_terminal_node(b)
    THEN [column |-> None, value |-> minimax(b, 0, -inf, inf, maximizing).value]
    ELSE exhaustive_loop(b, d, maximizing, get_valid_moves(b), 1,
                         IF maximizing THEN -inf ELSE inf, get_valid_moves(b)[1])

\* ------------------------------------------------------------------ claims

\* C1: on a non-terminal board, at every depth >= 1, get_best_move returns an
\* open column: never None, never a full column.
C1_BestMoveIsValid ==
    (op = "get_best_move" /\ NonTerminal(board)) => best_move \in OpenColumns(board)

\* C1 witness: a search answered on a non-terminal board some of whose columns are full.
C1_Witness ==
    /\ op = "get_best_move" /\ NonTerminal(board)
    /\ OpenColumns(board) # Cols
    /\ best_move \in OpenColumns(board)

\* C2: when some column wins at once for the mover, get_best_move returns a
\* column that wins at once.
C2_TakesImmediateWin ==
    (op = "get_best_move" /\ NonTerminal(board) /\ WinningColumns(board) # {})
        => best_move \in WinningColumns(board)

\* C3: the column of the pruned search is the column of the exhaustive search.
C3_PruningEquivalence ==
    (op = "get_best_move" /\ NonTerminal(board))
        => best_move = exhaustive(board, depth, TRUE).column

\* C3 witness: a search of depth >= 2 answered on a non-terminal board.
C3_Witness ==
    op = "get_best_move" /\ NonTerminal(board) /\ depth >= 2 /\ best_move # None

C6_NoneOnlyWhenFull ==
    (op = "get_best_move" /\ best_move = None) => OpenColumns(board) = {}

\* C6 as amended: get_best_move returns None exactly on a terminal board (a
\* side has four in a row, or no column is open), and a column otherwise.
C6_NoneIffTerminal ==
    op = "get_best_move" => (best_move = None <=> ~NonTerminal(board))

\* C6 witness: None returned on a board with four in a row and open columns.
C6_Witness ==
    /\ op = "get_best_move" /\ best_move = None
    /\ OpenColumns(board) # {}
    /\ HasFour(board, PLAYER_PIECE)

\* C8: on the blocking position get_best_move returns column 3 at every depth.
C8_BlocksColumn3 ==
    (op = "get_best_move" /\ board = BlockingBoard) => best_move = 3

\* C8 witness: the search answered on the blocking position at the deepest depth.
C8_Witness ==
    op = "get_best_move" /\ board = BlockingBoard /\ depth = MaxDepth /\ best_move = 3

\* The other side.
Other(piece) == IF piece = PLAYER_PIECE THEN AI_PIECE ELSE PLAYER_PIECE

\* b with every PLAYER_PIECE replaced by an AI_PIECE and the reverse.
Swapped(b) ==
    [row \in Rows |-> [col \in Cols |->
        IF b[row][col] = EMPTY THEN EMPTY ELSE Other(b[row][col])]]

\* The boards minimax(b, d, ..) builds, b included, all keep gravity (pruning
\* leaves some of them out).
RECURSIVE SearchGravity(_, _, _)
SearchGravity(b, d, maximizing) ==
    /\ Gravity(b)
    /\ (d = 0 \/ is_terminal_node(b)
        \/ LET valid_moves == get_valid_moves(b)
           IN  \A i \in 1..Len(valid_moves) :
                 SearchGravity(
                    drop_piece(ndarray_copy(b).cells, get_next_open_row(b, valid_moves[i]),
                               valid_moves[i], IF maximizing THEN AI_PIECE ELSE PLAYER_PIECE),
                    d - 1, ~maximizing))

\* C5: for both sides, winning_move is true exactly when the side holds
\* WINDOW_LENGTH consecutive cells along a row, a column or a diagonal, and
\* Connect4.winning_move answers as Connect4AI.winning_move does.
C5_WinningMoveIffFour ==
    \A piece \in Pieces :
        /\ winning_move(board, piece) <=> HasFour(board, piece)
        /\ Connect4_winning_move(board, piece) <=> winning_move(board, piece)

\* C5 witness: four on a rising diagonal, four pieces in all, detected.
C5_Witness ==
    /\ Pieces_on(board) = WINDOW_LENGTH
    /\ \E r \in Rows, c \in Cols : RunCells(r, c, <<1, -1>>, WINDOW_LENGTH) \subseteq
            {rc \in Rows \X Cols : board[rc[1]][rc[2]] = AI_PIECE}
    /\ winning_move(board, AI_PIECE)
    /\ ~winning_move(board, PLAYER_PIECE)

\* C7 as stated: the score of a board for one side is the negation of the
\* score of the side-swapped board for the other side.
C7_ScoreNegatedUnderSwap ==
    \A piece \in Pieces :
        score_position(board, piece) = -score_position(Swapped(board), Other(piece))

\* C7 as amended: the score of a board for one side equals the score of the
\* side-swapped board for the other side.
C7_ScoreEqualUnderSwap ==
    \A piece \in Pieces :
        score_position(board, piece) = score_position(Swapped(board), Other(piece))

\* C7 witness: a board with pieces of both sides and a score that is not 0.
C7_Witness ==
    /\ \E rc \in Rows \X Cols : board[rc[1]][rc[2]] = PLAYER_PIECE
    /\ \E rc \in Rows \X Cols : board[rc[1]][rc[2]] = AI_PIECE
    /\ score_position(board, AI_PIECE) < 0
    /\ score_position(Swapped(board), PLAYER_PIECE) < 0

\* C9: play_move(col) returns False exactly when the game is over or the top
\* cell of col is taken, and then changes nothing; otherwise it returns True and
\* one cell of col goes from EMPTY to the piece of the side to move.
C9_PlayMoveContract ==
    [][op' = "play_move" =>
        LET col == arg'
            rejected == game_over \/ board[0][col] # EMPTY
        IN  /\ ret' = ~rejected
            /\ rejected => UNCHANGED <<board, turn, game_over, winner>>
            /\ ~rejected =>
                 \E r \in Rows :
                    /\ board[r][col] = EMPTY
                    /\ board' = [board EXCEPT ![r][col] = turn]
      ]_vars

\* C9 witness: a move rejected because its column is full, the game not over.
C9_Witness ==
    op = "play_move" /\ ~ret /\ ~game_over /\ board[0][arg] # EMPTY

\* C10: every board of the game, and every board a search builds from it,
\* keeps each column's pieces stacked from the bottom row with no gap.
C10_Gravity ==
    /\ Gravity(board)
    /\ op = "get_best_move" => SearchGravity(board, depth, TRUE)

\* C10 witness: a search of depth >= 2 has run on a board with a stack of four
\* or more, after which its move was played.
C10_Witness ==
    /\ op = "play_move" /\ ret /\ best_move # None /\ depth >= 2
    /\ \E c \in Cols : board[2][c] # EMPTY

\* The value minimax gives a board won by the AI side; a board won by the
\* player side gets its negation.
WinValue == 100000000

\* Every window evaluate_window can be given: WINDOW_LENGTH cells.
Windows == [0..(WINDOW_LENGTH - 1) -> {EMPTY, PLAYER_PIECE, AI_PIECE}]

\* The number of windows score_position adds up: horizontal, vertical and the
\* two diagonal directions.
NumWindows ==
    BOARD_HEIGHT * (BOARD_WIDTH - 3) + (BOARD_HEIGHT - 3) * BOARD_WIDTH
        + 2 * (BOARD_HEIGHT - 3) * (BOARD_WIDTH - 3)

\* C11: score_position(board, AI_PIECE) lies strictly between -100000000 and
\* +100000000: every window scores between -4 and 100 (a fact about
\* evaluate_window alone, checked over all windows in the initial state), so
\* the sum over all windows plus the centre bonus stays far inside; hence the value minimax
\* gives a depth-exhausted board is strictly below the value of a won board
\* and strictly above the value of a lost one.
C11_SentinelDominance ==
    LET s == score_position(board, AI_PIECE)
        leaf == minimax(board, 0, -inf, inf, TRUE).value
    IN  /\ -WinValue < s /\ s < WinValue
        /\ op = "init" => \A w \in Windows :
              LET e == evaluate_window(w, AI_PIECE) IN -4 <= e /\ e <= 100
        /\ -4 * NumWindows <= s /\ s <= 100 * NumWindows + 3 * BOARD_HEIGHT
        /\ 100 * NumWindows + 3 * BOARD_HEIGHT < WinValue
        /\ ~is_terminal_node(board) => (leaf = s /\ -WinValue < leaf /\ leaf < WinValue)
        /\ winning_move(board, AI_PIECE) => leaf = WinValue
        /\ (winning_move(board, PLAYER_PIECE) /\ ~winning_move(board, AI_PIECE))
              => leaf = -WinValue

\* C11 witness: a board with four AI pieces in a row and a fifth piece: its
\* heuristic score counts a full window, its minimax value is that of a won board.
C11_Witness ==
    /\ op = "drop_piece"
    /\ winning_move(board, AI_PIECE)
    /\ score_position(board, AI_PIECE) >= 100
    /\ minimax(board, 0, -inf, inf, TRUE).value = WinValue

\* The piece on the highest taken cell of column col (EMPTY if the column is empty).
TopPiece(b, col) ==
    IF \A r \in Rows : b[r][col] = EMPTY THEN EMPTY
    ELSE b[CHOOSE r \in Rows : b[r][col] # EMPTY /\ \A y \in Rows : y < r => b[y][col] = EMPTY][col]

\* C12: in the game loop every call of get_best_move comes right after a
\* play_move of the player that was accepted and left game_over False (the
\* piece on top of the column played is the player's, the turn is the AI's),
\* and the board it is given has no four in a row and an open column.
C12_SearchOnlyAfterPlayerMove ==
    [][op' = "get_best_move" =>
        /\ op = "play_move" /\ ret /\ ~game_over
        /\ arg \in Cols /\ TopPiece(board, arg) = PLAYER_PIECE
        /\ turn = AI_PIECE
        /\ ~show_play_again
        /\ ~HasFour(board, PLAYER_PIECE) /\ ~HasFour(board, AI_PIECE)
        /\ OpenColumns(board) # {}
      ]_vars

\* C12 witness: the search has been called on a board of seven pieces, after
\* the player's fourth move did not end the game.
C12_Witness ==
    /\ op = "get_best_move" /\ pc = "ai_reply"
    /\ Pieces_on(board) = 7
    /\ ~game_over

\* Every cell of b is taken.
BoardFull(b) == \A r \in Rows, c \in Cols : b[r][c] # EMPTY

\* C13: game_over holds exactly when some side has four in a row or the board
\* is full; the two sides never have four in a row at once; winner is the side
\* that has four in a row, and None when no side has.
C13_GameOverAndWinner ==
    LET player_four == HasFour(board, PLAYER_PIECE)
        ai_four == HasFour(board, AI_PIECE)
    IN  /\ game_over <=> (player_four \/ ai_four \/ BoardFull(board))
        /\ ~(player_four /\ ai_four)
        /\ winner \in Pieces \cup {None}
        /\ winner = PLAYER_PIECE <=> player_four
        /\ winner = AI_PIECE <=> ai_four
        /\ winner = None <=> (~player_four /\ ~ai_four)

\* C13 witness: the last play_move filled the board with no four in a row:
\* the game is over and has no winner.
C13_Witness ==
    /\ op = "play_move" /\ ret
    /\ BoardFull(board)
    /\ game_over /\ winner = None
====
